---- MODULE Spec2Model ----
(***************************************************************************)
(* A model of object-commander: the dependency-injection Container         *)
(* (src/container.go) and the Bootstrap lifecycle coordinator              *)
(* (src/bootstrap.go).                                                     *)
(*                                                                         *)
(* Spec      : one caller issuing Container operations one after another.  *)
(* Every operation is computed the way the code computes it, as an         *)
(* operator from a "world" record (the Container's fields plus the side    *)
(* effects of the builders) to a result record; an action applies one      *)
(* operation to the state.                                                 *)
(* SpecCalls   : the operations built on Get (MustGet, Assign, Invoke).    *)
(* SpecResolve : builders that depend on each other.                       *)
(* SpecBoot, SpecEager : the Bootstrap's Boot, Run and Release.            *)
(* SpecRace, SpecConc  : two callers, one statement per step.              *)
(***************************************************************************)
EXTENDS Naturals, Sequences, FiniteSets, TLC

\* ---------------------------------------------------------------- bounds
\* Builder invocations over one run (the builders' serial numbers).
MaxBuilds == 2
\* Longest type-index bucket Register may grow (stale entries accumulate).
MaxBucket == 2

\* ------------------------------------------------------------ the inputs
\* type Identity string (container.go:11)
Identity == {"a", "b"}

\* reflect.Type of the values the builders produce and the callees take.
Types == {"T", "U"}

\* A function value as reflect sees it: its kind, its declared parameter
\* types, whether it is variadic, its declared result types, and the name of
\* the closure (tag).
FuncOf(tag, in, out) ==
    [tag |-> tag, kind |-> "func", in |-> in, variadic |-> FALSE, out |-> out]

\* type Builder interface{} (container.go:24): anything may be handed in.
Builder ==
    { FuncOf("t1", <<>>, <<"T">>),          \* func() T
      FuncOf("t2", <<>>, <<"T">>),          \* another func() T
      FuncOf("u", <<"T">>, <<"U">>),        \* func(T) U
      FuncOf("tu", <<"U">>, <<"T">>),       \* func(U) T
      FuncOf("two", <<>>, <<"T", "error">>) }\* func() (T, error)

\* What a builder invocation returns: the value is named by the closure that
\* made it, its dynamic type and the serial number of the invocation.
NoVal == [b |-> "-", t |-> "-", n |-> 0]

\* ---------------------------------------------------------------- state
VARIABLES
    defs,            \* Container.defs           map[Identity]Builder
    typeToIdentity,  \* Container.typeToIdentity map[reflect.Type][]Identity
    store,           \* Container.store          map[Identity]interface{}
    mu,              \* Container.RWMutex: "unlocked" or "locked" (exclusive)
    nbuilt,          \* builder invocations so far (the builders' side effect)
    last,            \* the operation just performed and its outcome
    halted,          \* the caller never returned (blocked or crashed)
    regOnly,         \* only Register has been called so far (by a direct
                     \* caller of the Container)
    regOrder,        \* the identities registered by direct callers of the
                     \* Container, in registration order
    successful_procedures,  \* Bootstrap.successful_procedures []Manager
    trace,           \* what the latest Bootstrap call did, in order
    pc,              \* each concurrent caller's place in its call
    frame,           \* each concurrent caller's call: arguments, locals, result
    readers,         \* the callers holding the RWMutex shared
    writer,          \* the caller holding the RWMutex exclusively, or 0
    access,          \* the latest access to one of the maps, and the lock held
    made,            \* the instances the callers' builders have produced
    ncalls           \* calls begun by concurrent callers

\* The Bootstrap's own state, which no Container operation touches.
bootVars == <<successful_procedures, trace>>

\* The concurrent callers' state, which the one-caller actions leave alone.
concVars == <<pc, frame, readers, writer, access, made, ncalls>>

vars == <<defs, typeToIdentity, store, mu, nbuilt, last, halted,
          regOnly, regOrder, successful_procedures, trace,
          pc, frame, readers, writer, access, made, ncalls>>

\* ------------------------------------------------------------- Go's maps
Has(m, k) == k \in DOMAIN m
Put(m, k, v) == [x \in DOMAIN m \cup {k} |-> IF x = k THEN v ELSE m[x]]
Delete(m, k) == [x \in DOMAIN m \ {k} |-> m[x]]
EmptyMap == <<>>

\* The outcomes that are not a return: a panic unwinds to the caller, a
\* caller blocked on the lock or out of stack never comes back.
Stuck == {"deadlock", "stack overflow"}

\* The world an operation runs in and leaves behind.
World ==
    [defs |-> defs, typeToIdentity |-> typeToIdentity, store |-> store,
     mu |-> mu, n |-> nbuilt, built |-> <<>>]

Res(w, err, val) == [w |-> w, err |-> err, val |-> val]

\* ------------------------------------------------------ resource building
\* checkBuilderSignature: nil on success, else the error.
checkBuilderSignature(ftype) ==
    IF ftype.kind = "nil" THEN "can't invoke nil type"
    ELSE IF ftype.kind # "func" THEN "can't invoke non-function"
    ELSE IF Len(ftype.out) # 1 THEN "expect builder function returns one value"
    ELSE "nil"

\* invoker on a builder: the closure runs once and returns a new value.
invoker(w, b) ==
    LET obj == [b |-> b.tag, t |-> b.out[1], n |-> w.n + 1]
    IN  Res([w EXCEPT !.n = w.n + 1, !.built = Append(w.built, b.tag)],
            "nil", obj)

\* fn.NumIn(), less one for a variadic function.
numArgs(fn) == IF fn.variadic THEN Len(fn.in) - 1 ELSE Len(fn.in)

RECURSIVE Get(_, _, _)
RECURSIVE GetByType(_, _, _)
RECURSIVE create(_, _, _)
RECURSIVE bind(_, _, _)
RECURSIVE paramsFrom(_, _, _, _, _, _)
RECURSIVE nextParam(_, _, _, _, _, _)

\* The tail of Get as it would be if the store were written whatever create
\* returned.
cacheWhateverReturned(r, name) ==
    Res([r.w EXCEPT !.store = Put(r.w.store, name, r.val)], r.err, r.val)

\* The tail of Get: the instance create returned is written to the store.
cacheInstance(r, name) ==
    IF r.err # "nil" THEN Res(r.w, r.err, NoVal)
    ELSE Res([r.w EXCEPT !.store = Put(r.w.store, name, r.val)], "nil", r.val)

\* Get as it would be without the write to the store.
GetWithoutCaching(w, name, fuel) ==
    IF fuel = 0 THEN Res(w, "stack overflow", NoVal)
    ELSE IF w.mu = "locked" THEN Res(w, "deadlock", NoVal)
    ELSE IF Has(w.store, name) THEN Res(w, "nil", w.store[name])
    ELSE create(w, name, fuel - 1)

\* Get: the cached instance, or the instance built now and cached. The
\* lookup is under the shared lock, the build under no lock, the caching
\* under the exclusive lock. fuel counts the nested Gets still allowed: a
\* chain of Gets longer than the identities there are is a dependency cycle,
\* on which the code recurses until the stack is exhausted.
Get(w, name, fuel) ==
    IF fuel = 0 THEN Res(w, "stack overflow", NoVal)
    ELSE IF w.mu = "locked" THEN Res(w, "deadlock", NoVal)
    ELSE IF Has(w.store, name) THEN Res(w, "nil", w.store[name])
    ELSE cacheInstance(create(w, name, fuel - 1), name)

\* GetByType: Get of the first identity of the type's bucket.
GetByType(w, t, fuel) ==
    IF Len(w.typeToIdentity[t]) = 0
    THEN Res(w, "there is no instance registered with type", NoVal)
    ELSE Get(w, w.typeToIdentity[t][1], fuel)

\* create: the builder of the definition, bound and invoked.
create(w, name, fuel) ==
    IF ~Has(w.defs, name) THEN Res(w, "was not registered", NoVal)
    ELSE bind(w, w.defs[name], fuel)

\* One pass of buildParams' loop, from parameter i on: each argument comes
\* from Get(ids[i]) when identities are given and from GetByType otherwise.
\* ids[i] beyond the identities given is an index out of range.
paramsFrom(w, fn, ids, i, args, fuel) ==
    IF i > numArgs(fn) THEN [w |-> w, err |-> "nil", args |-> args]
    ELSE IF Len(ids) > 0 /\ i > Len(ids)
         THEN [w |-> w, err |-> "panic", args |-> args]
    ELSE nextParam(IF Len(ids) > 0 THEN Get(w, ids[i], fuel)
                   ELSE GetByType(w, fn.in[i], fuel),
                   fn, ids, i, args, fuel)

\* The rest of the pass once parameter i is resolved: an error ends the
\* loop, a value is appended to the arguments.
nextParam(r, fn, ids, i, args, fuel) ==
    IF r.err # "nil" THEN [w |-> r.w, err |-> r.err, args |-> args]
    ELSE paramsFrom(r.w, fn, ids, i + 1, Append(args, r.val), fuel)

\* buildParams: the arguments of fn, taken from the container.
buildParams(w, fn, ids, fuel) == paramsFrom(w, fn, ids, 1, <<>>, fuel)

\* The tail of bind: the builder is invoked once its parameters resolved.
invokeWith(p, b) ==
    IF p.err # "nil" THEN Res(p.w, p.err, NoVal) ELSE invoker(p.w, b)

\* bind as it would be if the builder were invoked without its parameters
\* being resolved.
bindUnresolved(w, b, fuel) ==
    IF checkBuilderSignature(b) # "nil"
    THEN Res(w, checkBuilderSignature(b), NoVal)
    ELSE invoker(w, b)

\* bind: check the builder, resolve its parameters, invoke it.
bind(w, b, fuel) ==
    IF checkBuilderSignature(b) # "nil"
    THEN Res(w, checkBuilderSignature(b), NoVal)
    ELSE invokeWith(buildParams(w, b, <<>>, fuel), b)

\* The nested Gets one call may need: one per identity, and one more.
MaxDepth == Cardinality(Identity) + 1

\* ------------------------------------------------------------ operations
\* Register as it would be if a present identity were overwritten (Replace).
RegisterOverwriting(w, name, build) ==
    IF w.mu = "locked" THEN Res(w, "deadlock", NoVal)
    ELSE IF build.kind # "func" \/ Len(build.out) = 0
         THEN Res([w EXCEPT !.mu = "locked"], "panic", NoVal)
    ELSE Res([w EXCEPT !.defs = Put(w.defs, name, build),
                       !.typeToIdentity[build.out[1]] =
                           Append(w.typeToIdentity[build.out[1]], name)],
             IF Has(w.defs, name) THEN "AlreadyRegisteredError" ELSE "nil",
             NoVal)

\* Register as it would be if the builder were run to learn its type.
RegisterInvoking(w, name, build) ==
    IF w.mu = "locked" THEN Res(w, "deadlock", NoVal)
    ELSE IF Has(w.defs, name) THEN Res(w, "AlreadyRegisteredError", NoVal)
    ELSE IF build.kind # "func" \/ Len(build.out) = 0
         THEN Res([w EXCEPT !.mu = "locked"], "panic", NoVal)
    ELSE LET ret == invoker(w, build)
         IN  Res([ret.w EXCEPT !.defs = Put(w.defs, name, build),
                               !.store = Put(w.store, name, ret.val),
                               !.typeToIdentity[build.out[1]] =
                                   Append(w.typeToIdentity[build.out[1]], name)],
                 "nil", NoVal)

\* Register: reject a present identity under the shared lock; otherwise,
\* under the exclusive lock, record the builder and append the identity to
\* the bucket of the builder's first result type. fn.Out(0) panics on a
\* value that is no function or returns nothing, and the exclusive lock,
\* taken without defer, stays held.
Register(w, name, build) ==
    IF w.mu = "locked" THEN Res(w, "deadlock", NoVal)
    ELSE IF Has(w.defs, name) THEN Res(w, "AlreadyRegisteredError", NoVal)
    ELSE IF build.kind # "func" \/ Len(build.out) = 0
         THEN Res([w EXCEPT !.mu = "locked"], "panic", NoVal)
    ELSE LET retType == build.out[1]
         IN  Res([w EXCEPT !.defs = Put(w.defs, name, build),
                           !.typeToIdentity[retType] =
                               Append(w.typeToIdentity[retType], name)],
                 "nil", NoVal)

\* The index pop's loop finds (counted from 1): the first position holding
\* target, and the first position of all when there is none.
popIndex(source, target) ==
    IF \E i \in 1..Len(source) : source[i] = target
    THEN CHOOSE i \in 1..Len(source) :
             /\ source[i] = target
             /\ \A j \in 1..(i - 1) : source[j] # target
    ELSE 1

\* pop: append(source[:index], source[index+1:]...). ret is the slice pop
\* returns; array is what the caller's slice shows afterwards, the append
\* having moved the tail one place down inside the shared backing array.
\* On an empty slice source[1:] is out of range.
pop(source, target) ==
    LET i == popIndex(source, target)
        ret == SubSeq(source, 1, i - 1) \o SubSeq(source, i + 1, Len(source))
    IN  IF Len(source) = 0 THEN [err |-> "panic", ret |-> <<>>, array |-> <<>>]
        ELSE [err |-> "nil", ret |-> ret,
              array |-> Append(ret, source[Len(source)])]

\* Unregister as it would be if the cached instance were left in the store.
UnregisterKeepingInstance(w, name) ==
    IF w.mu = "locked" THEN Res(w, "deadlock", NoVal)
    ELSE IF ~Has(w.defs, name) THEN Res(w, "panic", NoVal)
    ELSE Res([w EXCEPT !.defs = Delete(w.defs, name)], "nil", NoVal)

\* Unregister: under the exclusive lock (released by defer), look the
\* builder up, take its first result type (a nil builder has no type to
\* ask), pop the identity from that bucket, dropping pop's result, and
\* delete the definition and the cached instance.
Unregister(w, name) ==
    IF w.mu = "locked" THEN Res(w, "deadlock", NoVal)
    ELSE IF ~Has(w.defs, name) THEN Res(w, "panic", NoVal)
    ELSE IF w.defs[name].kind # "func" \/ Len(w.defs[name].out) = 0
         THEN Res(w, "panic", NoVal)
    ELSE LET retType == w.defs[name].out[1]
             p == pop(w.typeToIdentity[retType], name)
         IN  IF p.err # "nil" THEN Res(w, "panic", NoVal)
             ELSE Res([w EXCEPT !.typeToIdentity[retType] = p.array,
                                !.defs = Delete(w.defs, name),
                                !.store = Delete(w.store, name)],
                      "nil", NoVal)

\* FlushALL as it would be if it emptied the definitions only.
FlushDefinitionsOnly(w) == Res([w EXCEPT !.defs = EmptyMap], "nil", NoVal)

\* FlushALL: three fresh maps; the lock is not touched.
FlushALL(w) ==
    Res([w EXCEPT !.defs = EmptyMap, !.store = EmptyMap,
                  !.typeToIdentity = [t \in Types |-> <<>>]],
        "nil", NoVal)

\* MustGet: Get, with its error turned into a panic.
MustGet(w, name) ==
    LET r == Get(w, name, MaxDepth)
    IN  IF r.err = "nil" \/ r.err \in Stuck THEN r
        ELSE Res(r.w, "panic", NoVal)

\* Create: create under the exclusive lock, released by defer; the store is
\* neither consulted nor written here.
Create(w, name) ==
    IF w.mu = "locked" THEN Res(w, "deadlock", NoVal)
    ELSE LET r == create([w EXCEPT !.mu = "locked"], name, MaxDepth)
         IN  IF r.err \in Stuck THEN r
             ELSE Res([r.w EXCEPT !.mu = "unlocked"], r.err, r.val)

\* The targets Assign is given: nothing, a pointer to a variable of a type,
\* or a value that is no pointer.
Target ==
    { [kind |-> "nil", elem |-> "-"],
      [kind |-> "ptr", elem |-> "T"],
      [kind |-> "struct", elem |-> "-"] }

\* Assign: the value of ids[0], or of the target's element type, set into
\* the target. Elem() panics on a value that is no pointer, and Set on a
\* value of another type.
Assign(w, value, ids) ==
    IF value.kind = "nil" THEN Res(w, "input value should not be nil", NoVal)
    ELSE IF value.kind # "ptr" THEN Res(w, "panic", NoVal)
    ELSE LET r == IF Len(ids) > 0 THEN Get(w, ids[1], MaxDepth)
                  ELSE GetByType(w, value.elem, MaxDepth)
         IN  IF r.err # "nil" THEN Res(r.w, r.err, NoVal)
             ELSE IF r.val.t # value.elem THEN Res(r.w, "panic", NoVal)
             ELSE r

\* The callees Invoke is given: functions of one parameter, one of them
\* returning a non-nil error, a function of two parameters, and a value that
\* is no function.
Callee ==
    { [tag |-> "fTU", kind |-> "func", in |-> <<"T", "U">>, variadic |-> FALSE,
       out |-> <<>>, fails |-> FALSE] } \cup
    { [tag |-> "fT", kind |-> "func", in |-> <<"T">>, variadic |-> FALSE,
       out |-> <<>>, fails |-> FALSE],
      [tag |-> "fTerr", kind |-> "func", in |-> <<"T">>, variadic |-> FALSE,
       out |-> <<"error">>, fails |-> TRUE],
      [tag |-> "fU", kind |-> "func", in |-> <<"U">>, variadic |-> FALSE,
       out |-> <<"error">>, fails |-> FALSE],
      [tag |-> "notfn", kind |-> "string", in |-> <<>>, variadic |-> FALSE,
       out |-> <<>>, fails |-> FALSE] }

\* checkCallee: nil on success, else the error.
checkCallee(ftype) ==
    IF ftype.kind = "nil" THEN "can't invoke nil type"
    ELSE IF ftype.kind # "func" THEN "can't invoke non-function"
    ELSE "nil"

\* maybeError: the callee's last result when it is a non-nil error.
maybeError(function) ==
    IF Len(function.out) = 0 THEN "nil"
    ELSE IF function.out[Len(function.out)] = "error" /\ function.fails
         THEN "callee error"
    ELSE "nil"

\* Invoke: resolve the arguments, call the function (reflect's Call panics
\* on an argument of another type than the parameter's), report its error.
\* The arguments the function was called with are returned in args.
Invoke(w, function, ids) ==
    IF checkCallee(function) # "nil"
    THEN [w |-> w, err |-> checkCallee(function), args |-> <<>>, called |-> FALSE]
    ELSE LET p == buildParams(w, function, ids, MaxDepth)
         IN  IF p.err # "nil"
             THEN [w |-> p.w, err |-> p.err, args |-> <<>>, called |-> FALSE]
             ELSE IF \E i \in 1..Len(p.args) : p.args[i].t # function.in[i]
             THEN [w |-> p.w, err |-> "panic", args |-> <<>>, called |-> FALSE]
             ELSE [w |-> p.w, err |-> maybeError(function), args |-> p.args,
                   called |-> TRUE]

\* ------------------------------------------------------- the state machine
\* What the caller sees of an operation: its name and argument, whether the
\* argument was cached when it began, the error and the value returned, the
\* builders that ran during it (in order), and for Invoke whether the
\* function was called and with which arguments.
Outcome(op, name, r, args, called) ==
    [op |-> op, name |-> name, hit |-> Has(store, name), err |-> r.err,
     val |-> r.val, built |-> r.w.built, args |-> args, called |-> called]

\* Calls the concurrent callers begin in all.
MaxCalls == 4

\* The concurrent callers of one container (goroutines).
Proc == {1, 2}

\* A caller that has made no call yet.
NoCall ==
    [op |-> "-", name |-> "-", t |-> "-", build |-> "-", obj |-> NoVal,
     registered |-> FALSE, missed |-> FALSE, alone |-> FALSE, err |-> "-",
     val |-> NoVal]

\* NewContainer: three empty maps and a free lock.
Init ==
    /\ defs = EmptyMap
    /\ typeToIdentity = [t \in Types |-> <<>>]
    /\ store = EmptyMap
    /\ mu = "unlocked"
    /\ nbuilt = 0
    /\ last = [op |-> "NewContainer", name |-> "-", hit |-> FALSE,
               err |-> "nil", val |-> NoVal, built |-> <<>>, args |-> <<>>,
               called |-> FALSE]
    /\ halted = FALSE
    /\ regOnly = TRUE
    /\ regOrder = <<>>
    /\ successful_procedures = <<>>
    /\ trace = <<>>
    /\ pc = [p \in Proc |-> "idle"]
    /\ frame = [p \in Proc |-> NoCall]
    /\ readers = {}
    /\ writer = 0
    /\ access = [p |-> 0, kind |-> "none", map |-> "-", held |-> "none"]
    /\ made = {}
    /\ ncalls = 0

\* The container and the builders' side effects after an operation.
Becomes(r) ==
    /\ r.w.n <= MaxBuilds
    /\ \A t \in Types : Len(r.w.typeToIdentity[t]) <= MaxBucket
    /\ defs' = r.w.defs
    /\ typeToIdentity' = r.w.typeToIdentity
    /\ store' = r.w.store
    /\ mu' = r.w.mu
    /\ nbuilt' = r.w.n
    /\ halted' = (r.err \in Stuck)
    /\ UNCHANGED concVars

Without(seq, x) == SelectSeq(seq, LAMBDA y : y # x)

CallRegister(name, build) ==
    LET r == Register(World, name, build)
    IN  /\ ~halted
        /\ Becomes(r)
        /\ last' = Outcome("Register", name, r, <<>>, FALSE)
        /\ regOrder' = IF r.err = "nil" THEN Append(regOrder, name) ELSE regOrder
        /\ UNCHANGED regOnly
        /\ UNCHANGED bootVars

CallUnregister(name) ==
    LET r == Unregister(World, name)
    IN  /\ ~halted
        /\ Becomes(r)
        /\ last' = Outcome("Unregister", name, r, <<>>, FALSE)
        /\ regOnly' = FALSE
        /\ regOrder' = IF r.err = "nil" THEN Without(regOrder, name) ELSE regOrder
        /\ UNCHANGED bootVars

CallFlushALL ==
    LET r == FlushALL(World)
    IN  /\ ~halted
        /\ Becomes(r)
        /\ last' = Outcome("FlushALL", "-", r, <<>>, FALSE)
        /\ regOnly' = FALSE
        /\ regOrder' = <<>>
        /\ UNCHANGED bootVars

CallGet(name) ==
    LET r == Get(World, name, MaxDepth)
    IN  /\ ~halted
        /\ Becomes(r)
        /\ last' = Outcome("Get", name, r, <<>>, FALSE)
        /\ regOnly' = FALSE
        /\ UNCHANGED regOrder
        /\ UNCHANGED bootVars

CallMustGet(name) ==
    LET r == MustGet(World, name)
    IN  /\ ~halted
        /\ Becomes(r)
        /\ last' = Outcome("MustGet", name, r, <<>>, FALSE)
        /\ regOnly' = FALSE
        /\ UNCHANGED regOrder
        /\ UNCHANGED bootVars

CallGetByType(t) ==
    LET r == GetByType(World, t, MaxDepth)
    IN  /\ ~halted
        /\ Becomes(r)
        /\ last' = Outcome("GetByType", t, r, <<>>, FALSE)
        /\ regOnly' = FALSE
        /\ UNCHANGED regOrder
        /\ UNCHANGED bootVars

CallCreate(name) ==
    LET r == Create(World, name)
    IN  /\ ~halted
        /\ Becomes(r)
        /\ last' = Outcome("Create", name, r, <<>>, FALSE)
        /\ regOnly' = FALSE
        /\ UNCHANGED regOrder
        /\ UNCHANGED bootVars

\* The identity lists Assign and Invoke are called with: none, or one.
IdLists == {<<>>} \cup {<<i>> : i \in Identity}
First(ids) == IF Len(ids) > 0 THEN ids[1] ELSE "-"

CallAssign(value, ids) ==
    LET r == Assign(World, value, ids)
    IN  /\ ~halted
        /\ Becomes(r)
        /\ last' = Outcome("Assign", First(ids), r, <<>>, FALSE)
        /\ regOnly' = FALSE
        /\ UNCHANGED regOrder
        /\ UNCHANGED bootVars

CallInvoke(function, ids) ==
    LET r == Invoke(World, function, ids)
    IN  /\ ~halted
        /\ Becomes([w |-> r.w, err |-> r.err])
        /\ last' = Outcome("Invoke", First(ids), Res(r.w, r.err, NoVal),
                           r.args, r.called)
                        @@ [function |-> function, ids |-> ids]
        /\ regOnly' = FALSE
        /\ UNCHANGED regOrder
        /\ UNCHANGED bootVars

\* The life of a definition: registered, resolved, removed.
Lifecycle ==
    \/ \E name \in Identity, build \in Builder : CallRegister(name, build)
    \/ \E name \in Identity : CallUnregister(name)
    \/ CallFlushALL
    \/ \E name \in Identity : CallGet(name)
    \/ \E t \in Types : CallGetByType(t)
    \/ \E name \in Identity : CallCreate(name)

\* The operations built on Get and GetByType.
Calls ==
    \/ \E name \in Identity : CallMustGet(name)
    \/ \E value \in Target, ids \in IdLists : CallAssign(value, ids)
    \/ \E function \in Callee, ids \in IdLists : CallInvoke(function, ids)

Next == Lifecycle

Spec == Init /\ [][Next]_vars

\* Definitions are added while the operations built on Get are called.
Registration ==
    \E name \in Identity, build \in Builder : CallRegister(name, build)

NextCalls == Registration \/ Calls

SpecCalls == Init /\ [][NextCalls]_vars

\* Builders of two parameters beside the others: func(T, T) U, whose second
\* parameter is the first one's instance, and func(T, U) T, whose second
\* parameter may stay unresolved after the first is built.
DepBuilder ==
    Builder \cup { FuncOf("tt", <<"T", "T">>, <<"U">>),
                   FuncOf("tuT", <<"T", "U">>, <<"T">>) }

\* Definitions whose builders depend on each other are registered, resolved
\* and removed.
NextResolve ==
    \/ \E name \in Identity, build \in DepBuilder : CallRegister(name, build)
    \/ \E name \in Identity : CallUnregister(name)
    \/ CallFlushALL
    \/ \E name \in Identity : CallGet(name)

SpecResolve == Init /\ [][NextResolve]_vars

\* ---------------------------------------------------------------- Bootstrap
\* bootstrap.go asserts the Start error against AlreadRegisteredError, a name
\* no file declares; the model reads it as AlreadyRegisteredError, the type
\* Register returns.

\* Managers per Boot call.
MaxManagers == 2
\* Managers tracked at a time (Boot called again appends to the list).
MaxTracked == 3

\* The managers, as in bootstrap_test.go: ID() names the resource, Start
\* registers its builder, Close gets the resource and releases it. Start
\* either drops Register's error (as the test's managers do), returns it, or
\* fails with an error of its own.
ManagerOf(m, id, build, start) ==
    [m |-> m, id |-> id, build |-> build, start |-> start]

Manager ==
    { ManagerOf("db", "a", FuncOf("t1", <<>>, <<"T">>), "register"),
      ManagerOf("log", "b", FuncOf("u", <<"T">>, <<"U">>), "register"),
      ManagerOf("cache", "a", FuncOf("t2", <<>>, <<"T">>), "strict"),
      ManagerOf("bad", "b", FuncOf("t1", <<>>, <<"T">>), "fail") }

\* Manager.Start
Start(w, p) ==
    IF p.start = "fail" THEN [w |-> w, err |-> "start failed"]
    ELSE LET r == Register(w, p.id, p.build)
         IN  IF p.start = "strict" \/ r.err \in Stuck
             THEN [w |-> r.w, err |-> r.err]
             ELSE [w |-> r.w, err |-> "nil"]

\* Manager.Close: the resource is fetched and released; what Close returns
\* is the error of the Get.
errorOf(r) == [w |-> r.w, err |-> r.err]

Close(w, p) == errorOf(Get(w, p.id, MaxDepth))

\* One thing a Bootstrap call did: a Start, a builder run, a Close, the
\* flush of the container, the call of Run's function.
Event(e, m, err) == [e |-> e, m |-> m, err |-> err]
Builds(tags) == [i \in 1..Len(tags) |-> Event("build", tags[i], "nil")]

\* The Bootstrap (its container and its tracked managers) and what the call
\* in progress has done so far.
BootstrapOf(w, procs, tr) == [w |-> w, successful_procedures |-> procs, trace |-> tr]

Bootstrap == BootstrapOf(World, successful_procedures, <<>>)

Fresh(w) == [w EXCEPT !.built = <<>>]

RECURSIVE closeFrom(_, _)
RECURSIVE closed(_, _, _)
\* Release's loop from the i-th tracked manager on.
closeFrom(b, i) ==
    IF i > Len(b.successful_procedures) THEN [b |-> b, err |-> "nil"]
    ELSE closed(b, i, Close(Fresh(b.w), b.successful_procedures[i]))

\* The loop after the i-th Close returned c: Close's error is dropped.
closed(b, i, c) ==
    LET p == b.successful_procedures[i]
        tr == b.trace \o Builds(c.w.built) \o <<Event("close", p.m, c.err)>>
        nb == BootstrapOf(c.w, b.successful_procedures, tr)
    IN  IF c.err \in Stuck THEN [b |-> nb, err |-> c.err]
        ELSE closeFrom(nb, i + 1)

\* The tail of Release: the container flushed, the tracked list cleared.
flushAndClear(c) ==
    IF c.err \in Stuck THEN c
    ELSE [b |-> BootstrapOf(FlushALL(c.b.w).w, <<>>,
                            Append(c.b.trace, Event("flush", "-", "nil"))),
          err |-> "nil"]

\* Release as it would be if it flushed the container without closing.
ReleaseWithoutClose(b) == flushAndClear([b |-> b, err |-> "nil"])

\* The tracked list cleared, nothing else.
cleared(c) == [b |-> BootstrapOf(c.b.w, <<>>, c.b.trace), err |-> c.err]

\* Release as it would be if it flushed the container before closing.
ReleaseFlushingFirst(b) ==
    cleared(closeFrom(BootstrapOf(FlushALL(b.w).w, b.successful_procedures,
                                  Append(b.trace, Event("flush", "-", "nil"))),
                      1))

\* Release: Close every tracked manager in order, flush the container, clear
\* the tracked list.
Release(b) == flushAndClear(closeFrom(b, 1))

RECURSIVE bootFrom(_, _, _, _)
RECURSIVE started(_, _, _, _, _)
RECURSIVE resolved(_, _, _, _, _)

\* panic(err), raised once Release is through.
panicAfter(rel, err) ==
    IF rel.err \in Stuck THEN rel
    ELSE [b |-> rel.b, err |-> "panic", cause |-> err]

\* Boot's loop from the i-th manager on.
bootFrom(b, procedures, lazy, i) ==
    IF i > Len(procedures) THEN [b |-> b, err |-> "nil"]
    ELSE started(b, procedures, lazy, i, Start(b.w, procedures[i]))

\* The loop after Start as it would be if an already registered resource
\* were an error like any other.
startedAbortingOnDuplicate(b, procedures, lazy, i, st) ==
    LET p == procedures[i]
        tr == Append(b.trace, Event("start", p.m, st.err))
        nb == BootstrapOf(Fresh(st.w), b.successful_procedures, tr)
    IN  IF st.err \in Stuck THEN [b |-> nb, err |-> st.err]
        ELSE IF st.err = "nil"
        THEN resolved(nb, procedures, lazy, i,
                      IF lazy THEN Res(nb.w, "nil", NoVal)
                      ELSE Get(nb.w, p.id, MaxDepth))
        ELSE panicAfter(Release(nb), st.err)

\* The loop after the i-th Start returned st: on success the resource is
\* fetched unless lazy; an already registered resource is passed over; on
\* any other error Release, then panic.
started(b, procedures, lazy, i, st) ==
    LET p == procedures[i]
        tr == Append(b.trace, Event("start", p.m, st.err))
        nb == BootstrapOf(Fresh(st.w), b.successful_procedures, tr)
    IN  IF st.err \in Stuck THEN [b |-> nb, err |-> st.err]
        ELSE IF st.err = "nil"
        THEN resolved(nb, procedures, lazy, i,
                      IF lazy THEN Res(nb.w, "nil", NoVal)
                      ELSE Get(nb.w, p.id, MaxDepth))
        ELSE IF st.err = "AlreadyRegisteredError"
        THEN bootFrom(nb, procedures, lazy, i + 1)
        ELSE panicAfter(Release(nb), st.err)

\* The loop after the eager Get returned g: its error is a panic, with
\* nothing released; otherwise the manager is tracked.
resolved(b, procedures, lazy, i, g) ==
    LET tg == b.trace \o Builds(g.w.built)
    IN  IF g.err \in Stuck
        THEN [b |-> BootstrapOf(g.w, b.successful_procedures, tg), err |-> g.err]
        ELSE IF g.err # "nil"
        THEN [b |-> BootstrapOf(g.w, b.successful_procedures, tg),
              err |-> "panic", cause |-> g.err]
        ELSE bootFrom(BootstrapOf(g.w, Append(b.successful_procedures, procedures[i]), tg),
                      procedures, lazy, i + 1)

\* Boot as it would be if it never fetched the resources.
BootAlwaysLazy(b, procedures, lazy) == bootFrom(b, procedures, TRUE, 1)

\* Boot: Start each manager in order; eagerly Get its resource unless lazy;
\* track it. An already registered resource is passed over, any other Start
\* error releases what was started and panics.
Boot(b, procedures, lazy) == bootFrom(b, procedures, lazy, 1)

\* What Run's function does: return, panic, or use the container (Get the
\* resource of the first tracked manager) and return.
Procedure == {"return", "panic", "use"}

\* Run once f is through (u is what f's use of the container gave): a
\* panic of f leaves Run at once; otherwise Release.
returned(b, f, u) ==
    LET tr == Append(b.trace, Event("f", f, IF f = "panic" THEN "panic" ELSE "nil"))
        after == BootstrapOf(u.w, b.successful_procedures, tr \o Builds(u.w.built))
    IN  IF f = "panic" THEN [b |-> after, err |-> "panic", cause |-> "f"]
        ELSE IF u.err \in Stuck THEN [b |-> after, err |-> u.err]
        ELSE Release(after)

\* Run as it would be without the test of the tracked list.
RunUnguarded(b, f) == returned(b, f, Res(Fresh(b.w), "nil", NoVal))

\* Run: with managers tracked, call f, then Release.
Run(b, f) ==
    IF Len(b.successful_procedures) = 0 THEN [b |-> b, err |-> "nil"]
    ELSE returned(b, f,
                  IF f = "use"
                  THEN Get(Fresh(b.w), b.successful_procedures[1].id, MaxDepth)
                  ELSE Res(Fresh(b.w), "nil", NoVal))

\* The Bootstrap after a call, and what the caller saw of the call.
BootBecomes(r, call) ==
    /\ Becomes([w |-> r.b.w, err |-> r.err])
    /\ Len(r.b.successful_procedures) <= MaxTracked
    /\ successful_procedures' = r.b.successful_procedures
    /\ trace' = r.b.trace
    /\ last' = [call EXCEPT !.err = r.err,
                             !.cause = IF r.err = "panic" THEN r.cause ELSE "-"]
    /\ regOnly' = FALSE
    /\ UNCHANGED regOrder

BootCall(op, procedures, lazy, f) ==
    [op |-> op, procedures |-> procedures, lazy |-> lazy, f |-> f,
     tracked |-> successful_procedures, err |-> "nil", cause |-> "-"]

RECURSIVE ListsUpTo(_)
\* The lists of at most n different managers.
ListsUpTo(n) ==
    IF n = 0 THEN {<<>>}
    ELSE LET shorter == ListsUpTo(n - 1)
             Unlisted(l) == {x \in Manager : \A i \in 1..Len(l) : l[i] # x}
         IN  shorter \cup
             UNION { {Append(l, x) : x \in Unlisted(l)} : l \in shorter }

\* The manager lists Boot is given: up to MaxManagers different managers.
ManagerLists == ListsUpTo(MaxManagers)

CallBoot(procedures, lazy) ==
    /\ ~halted
    /\ BootBecomes(Boot(Bootstrap, procedures, lazy),
                   BootCall("Boot", procedures, lazy, "-"))

CallRun(f) ==
    /\ ~halted
    /\ BootBecomes(Run(Bootstrap, f), BootCall("Run", <<>>, FALSE, f))

CallRelease ==
    /\ ~halted
    /\ BootBecomes(Release(Bootstrap), BootCall("Release", <<>>, FALSE, "-"))

NextBoot ==
    \/ \E procedures \in ManagerLists, lazy \in BOOLEAN : CallBoot(procedures, lazy)
    \/ \E f \in Procedure : CallRun(f)
    \/ CallRelease

\* NewBootstrap(nil): a new container and no manager tracked.
SpecBoot == Init /\ [][NextBoot]_vars

\* Managers among which one registers a builder the container cannot
\* invoke (it returns two values): its Start returns nil and the Get of its
\* resource fails.
EagerManager ==
    { ManagerOf("db", "a", FuncOf("t1", <<>>, <<"T">>), "register"),
      ManagerOf("log", "b", FuncOf("u", <<"T">>, <<"U">>), "register"),
      ManagerOf("raw", "b", FuncOf("two", <<>>, <<"T", "error">>), "register") }

RECURSIVE ListsFrom(_, _)
\* The lists of at most n different managers of S.
ListsFrom(S, n) ==
    IF n = 0 THEN {<<>>}
    ELSE LET shorter == ListsFrom(S, n - 1)
             Unlisted(l) == {x \in S : \A i \in 1..Len(l) : l[i] # x}
         IN  shorter \cup
             UNION { {Append(l, x) : x \in Unlisted(l)} : l \in shorter }

NextEager ==
    \/ \E procedures \in ListsFrom(EagerManager, MaxManagers), lazy \in BOOLEAN :
           CallBoot(procedures, lazy)
    \/ \E f \in Procedure : CallRun(f)
    \/ CallRelease

\* A Bootstrap given managers whose resources may fail to build.
SpecEager == Init /\ [][NextEager]_vars

\* ------------------------------------------------------ concurrent callers
\* Each caller runs one operation at a time, one statement (or one lock
\* operation) per step, as container.go orders them. The builders here take
\* no parameters, so that a Get is one call and not a tree of them.
ConcBuilder == {b \in Builder : b.in = <<>> /\ checkBuilderSignature(b) = "nil"}

\* The one-caller state, which the concurrent callers leave alone.
seqVars == <<mu, last, halted, regOnly, regOrder, successful_procedures, trace>>

\* The lock p holds.
Held(p) ==
    IF writer = p THEN "exclusive"
    ELSE IF p \in readers THEN "shared"
    ELSE "none"

Access(p, kind, map) == [p |-> p, kind |-> kind, map |-> map, held |-> Held(p)]

\* The operations that only read the maps of definitions and of types.
Lookups == {"Get", "GetByType"}

\* The calls under way are all lookups.
OnlyLookups == \A q \in Proc : pc[q] = "idle" \/ frame[q].op \in Lookups

\* p begins a call. A lookup is alone as long as no other kind of call runs
\* beside it.
Begins(p, c, at) ==
    /\ pc[p] = "idle"
    /\ \A q \in Proc : pc[q] # "crashed"
    /\ ncalls < MaxCalls
    /\ ncalls' = ncalls + 1
    /\ frame' = [q \in Proc |->
                     IF q = p THEN c
                     ELSE IF c.op \notin Lookups /\ pc[q] # "idle"
                          THEN [frame[q] EXCEPT !.alone = FALSE]
                     ELSE frame[q]]
    /\ pc' = [pc EXCEPT ![p] = at]
    /\ UNCHANGED <<defs, typeToIdentity, store, nbuilt, readers, writer,
                   access, made>>
    /\ UNCHANGED seqVars

\* A caller holds the exclusive lock and is about to write the maps of
\* definitions and of types: a read made under no lock now is a data race.
MapWriteUnderWay(p) ==
    \E q \in Proc \ {p} : pc[q] \in {"Register.write", "Unregister.delete"}

\* The Go runtime ends the program: fatal error, concurrent map read and
\* map write.
Crashes(p) ==
    /\ frame' = [frame EXCEPT ![p].err = "fatal error"]
    /\ pc' = [q \in Proc |-> IF pc[q] = "idle" THEN "idle" ELSE "crashed"]

\* p returns err and val to its caller.
Returns(p, err, val) ==
    /\ frame' = [frame EXCEPT ![p].err = err, ![p].val = val]
    /\ pc' = [pc EXCEPT ![p] = "idle"]

\* c.RLock(): granted while no caller holds the lock exclusively.
RLock(p, at, to) ==
    /\ pc[p] = at
    /\ writer = 0
    /\ readers' = readers \cup {p}
    /\ pc' = [pc EXCEPT ![p] = to]
    /\ UNCHANGED <<defs, typeToIdentity, store, nbuilt, frame, writer, access,
                   made, ncalls>>
    /\ UNCHANGED seqVars

\* c.Lock(): granted while no caller holds the lock at all.
Lock(p, at, to) ==
    /\ pc[p] = at
    /\ writer = 0
    /\ readers = {}
    /\ writer' = p
    /\ pc' = [pc EXCEPT ![p] = to]
    /\ UNCHANGED <<defs, typeToIdentity, store, nbuilt, frame, readers, access,
                   made, ncalls>>
    /\ UNCHANGED seqVars

BeginRegister(p, name, build) ==
    Begins(p, [NoCall EXCEPT !.op = "Register", !.name = name, !.build = build,
                             !.registered = Has(defs, name)],
           "Register.RLock")

RegisterRLock(p) == RLock(p, "Register.RLock", "Register.exists")

\* Register, under the shared lock: is the identity there? RUnlock either way.
RegisterExists(p) ==
    /\ pc[p] = "Register.exists"
    /\ access' = Access(p, "read", "defs")
    /\ readers' = readers \ {p}
    /\ IF Has(defs, frame[p].name)
       THEN Returns(p, "AlreadyRegisteredError", NoVal)
       ELSE /\ pc' = [pc EXCEPT ![p] = "Register.Lock"]
            /\ UNCHANGED frame
    /\ UNCHANGED <<defs, typeToIdentity, store, nbuilt, writer, made, ncalls>>
    /\ UNCHANGED seqVars

RegisterLock(p) == Lock(p, "Register.Lock", "Register.write")

\* Register, under the exclusive lock: the definition and the type index are
\* written; Unlock; return nil.
RegisterWrite(p) ==
    /\ pc[p] = "Register.write"
    /\ access' = Access(p, "write", "defs, typeToIdentity")
    /\ defs' = Put(defs, frame[p].name, frame[p].build)
    /\ typeToIdentity' =
           [typeToIdentity EXCEPT ![frame[p].build.out[1]] =
                Append(typeToIdentity[frame[p].build.out[1]], frame[p].name)]
    /\ writer' = 0
    /\ Returns(p, "nil", NoVal)
    /\ UNCHANGED <<store, nbuilt, readers, made, ncalls>>
    /\ UNCHANGED seqVars

BeginGet(p, name) ==
    Begins(p, [NoCall EXCEPT !.op = "Get", !.name = name,
                             !.registered = Has(defs, name),
                             !.alone = OnlyLookups],
           "Get.RLock")

GetRLock(p) == RLock(p, "Get.RLock", "Get.exists")

\* Get, under the shared lock: is the instance cached? RUnlock either way.
GetExists(p) ==
    /\ pc[p] = "Get.exists"
    /\ access' = Access(p, "read", "store")
    /\ readers' = readers \ {p}
    /\ IF Has(store, frame[p].name)
       THEN Returns(p, "nil", store[frame[p].name])
       ELSE /\ pc' = [pc EXCEPT ![p] = "create"]
            /\ frame' = [frame EXCEPT ![p].missed = TRUE]
    /\ UNCHANGED <<defs, typeToIdentity, store, nbuilt, writer, made, ncalls>>
    /\ UNCHANGED seqVars

\* create, under no lock: the builder is looked up.
GetCreate(p) ==
    /\ pc[p] = "create"
    /\ access' = Access(p, "read", "defs")
    /\ \/ IF Has(defs, frame[p].name)
          THEN /\ pc' = [pc EXCEPT ![p] = "invoker"]
               /\ frame' = [frame EXCEPT ![p].build = defs[frame[p].name]]
          ELSE Returns(p, "was not registered", NoVal)
       \/ MapWriteUnderWay(p) /\ Crashes(p)
    /\ UNCHANGED <<defs, typeToIdentity, store, nbuilt, readers, writer, made,
                   ncalls>>
    /\ UNCHANGED seqVars

\* bind, under no lock: the builder is invoked.
GetInvoker(p) ==
    /\ pc[p] = "invoker"
    /\ LET obj == [b |-> frame[p].build.tag, t |-> frame[p].build.out[1],
                   n |-> nbuilt + 1]
       IN  /\ frame' = [frame EXCEPT ![p].obj = obj]
           /\ made' = made \cup {[id |-> frame[p].name, by |-> p, obj |-> obj]}
    /\ nbuilt' = nbuilt + 1
    /\ pc' = [pc EXCEPT ![p] = "Get.Lock"]
    /\ UNCHANGED <<defs, typeToIdentity, store, readers, writer, access, ncalls>>
    /\ UNCHANGED seqVars

GetLock(p) == Lock(p, "Get.Lock", "Get.store")

\* Get as it would be if a caller that built an instance did not store it.
StoredNowhere(s, name, obj) == s

\* What Get leaves in the store.
Stored(s, name, obj) == Put(s, name, obj)

\* Get, under the exclusive lock: the instance is stored; Unlock (deferred);
\* return the instance.
GetStore(p) ==
    /\ pc[p] = "Get.store"
    /\ access' = Access(p, "write", "store")
    /\ store' = Stored(store, frame[p].name, frame[p].obj)
    /\ writer' = 0
    /\ Returns(p, "nil", frame[p].obj)
    /\ UNCHANGED <<defs, typeToIdentity, nbuilt, readers, made, ncalls>>
    /\ UNCHANGED seqVars

BeginGetByType(p, t) ==
    Begins(p, [NoCall EXCEPT !.op = "GetByType", !.t = t,
                             !.alone = OnlyLookups],
           "GetByType")

\* GetByType, under no lock: the first identity of the type's bucket, and
\* Get of it.
GetByTypeIdentity(p) ==
    /\ pc[p] = "GetByType"
    /\ access' = Access(p, "read", "typeToIdentity")
    /\ \/ IF Len(typeToIdentity[frame[p].t]) = 0
          THEN Returns(p, "there is no instance registered with type", NoVal)
          ELSE /\ pc' = [pc EXCEPT ![p] = "Get.RLock"]
               /\ frame' = [frame EXCEPT
                                ![p].name = typeToIdentity[frame[p].t][1],
                                ![p].registered =
                                    Has(defs, typeToIdentity[frame[p].t][1])]
       \/ MapWriteUnderWay(p) /\ Crashes(p)
    /\ UNCHANGED <<defs, typeToIdentity, store, nbuilt, readers, writer, made,
                   ncalls>>
    /\ UNCHANGED seqVars

BeginUnregister(p, name) ==
    Begins(p, [NoCall EXCEPT !.op = "Unregister", !.name = name,
                             !.registered = Has(defs, name)],
           "Unregister.Lock")

UnregisterLock(p) == Lock(p, "Unregister.Lock", "Unregister.delete")

\* Unregister, under the exclusive lock: what the one-caller Unregister does
\* to the maps; Unlock (deferred), also when it panics.
UnregisterDelete(p) ==
    /\ pc[p] = "Unregister.delete"
    /\ access' = Access(p, "write", "defs, store, typeToIdentity")
    /\ LET r == Unregister([World EXCEPT !.mu = "unlocked"], frame[p].name)
       IN  /\ defs' = r.w.defs
           /\ store' = r.w.store
           /\ typeToIdentity' = r.w.typeToIdentity
           /\ Returns(p, r.err, NoVal)
    /\ writer' = 0
    /\ UNCHANGED <<nbuilt, readers, made, ncalls>>
    /\ UNCHANGED seqVars

BeginFlushALL(p) ==
    Begins(p, [NoCall EXCEPT !.op = "FlushALL"], "FlushALL.defs")

\* FlushALL, under no lock: three assignments, one after the other.
FlushDefs(p) ==
    /\ pc[p] = "FlushALL.defs"
    /\ access' = Access(p, "write", "defs")
    /\ defs' = EmptyMap
    /\ pc' = [pc EXCEPT ![p] = "FlushALL.store"]
    /\ UNCHANGED <<typeToIdentity, store, nbuilt, frame, readers, writer, made,
                   ncalls>>
    /\ UNCHANGED seqVars

FlushStore(p) ==
    /\ pc[p] = "FlushALL.store"
    /\ access' = Access(p, "write", "store")
    /\ store' = EmptyMap
    /\ pc' = [pc EXCEPT ![p] = "FlushALL.typeToIdentity"]
    /\ UNCHANGED <<defs, typeToIdentity, nbuilt, frame, readers, writer, made,
                   ncalls>>
    /\ UNCHANGED seqVars

FlushTypeToIdentity(p) ==
    /\ pc[p] = "FlushALL.typeToIdentity"
    /\ access' = Access(p, "write", "typeToIdentity")
    /\ typeToIdentity' = [t \in Types |-> <<>>]
    /\ Returns(p, "nil", NoVal)
    /\ UNCHANGED <<defs, store, nbuilt, readers, writer, made, ncalls>>
    /\ UNCHANGED seqVars

\* Callers that register and get, and nothing else.
NextRace ==
    \/ \E p \in Proc, name \in Identity, build \in ConcBuilder :
           BeginRegister(p, name, build)
    \/ \E p \in Proc : RegisterRLock(p)
    \/ \E p \in Proc : RegisterExists(p)
    \/ \E p \in Proc : RegisterLock(p)
    \/ \E p \in Proc : RegisterWrite(p)
    \/ \E p \in Proc, name \in Identity : BeginGet(p, name)
    \/ \E p \in Proc : GetRLock(p)
    \/ \E p \in Proc : GetExists(p)
    \/ \E p \in Proc : GetCreate(p)
    \/ \E p \in Proc : GetInvoker(p)
    \/ \E p \in Proc : GetLock(p)
    \/ \E p \in Proc : GetStore(p)

SpecRace == Init /\ [][NextRace]_vars

\* Callers of every operation that touches the maps.
NextConc ==
    \/ NextRace
    \/ \E p \in Proc, t \in Types : BeginGetByType(p, t)
    \/ \E p \in Proc : GetByTypeIdentity(p)
    \/ \E p \in Proc, name \in Identity : BeginUnregister(p, name)
    \/ \E p \in Proc : UnregisterLock(p)
    \/ \E p \in Proc : UnregisterDelete(p)
    \/ \E p \in Proc : BeginFlushALL(p)
    \/ \E p \in Proc : FlushDefs(p)
    \/ \E p \in Proc : FlushStore(p)
    \/ \E p \in Proc : FlushTypeToIdentity(p)

SpecConc == Init /\ [][NextConc]_vars

\* ----------------------------------------------------------------- claims
Count(seq, x) == Cardinality({i \in 1..Len(seq) : seq[i] = x})

Returned(op, name) == last.op = op /\ last.name = name /\ last.err = "nil"

\* C1 (singleton). A cached instance stays in the store, unchanged, through
\* every operation but FlushALL and the Unregister of its identity; a
\* successful Get(id) leaves in the store the value it returns; a Get(id)
\* that finds id cached returns the stored value and invokes no builder; a
\* successful Get(id) that finds id not cached invokes id's builder exactly
\* once. Hence two Get(id) with no Unregister or FlushALL between them
\* return the identical instance, built once, on the first of them.
C1_Singleton ==
    [][ /\ \A id \in DOMAIN store :
              \/ last'.op = "FlushALL"
              \/ last'.op = "Unregister" /\ last'.name = id
              \/ Has(store', id) /\ store'[id] = store[id]
        /\ \A id \in Identity :
              (last'.op = "Get" /\ last'.name = id) =>
                  /\ last'.err = "nil" =>
                        Has(store', id) /\ store'[id] = last'.val
                  /\ Has(store, id) =>
                        /\ last'.err = "nil"
                        /\ last'.val = store[id]
                        /\ last'.built = <<>>
                        /\ nbuilt' = nbuilt
                  /\ (~Has(store, id) /\ last'.err = "nil") =>
                        /\ Count(last'.built, defs[id].tag) = 1
                        /\ last'.val.b = defs[id].tag
      ]_vars

\* A second Get(id) in a row, served from the store.
C1_Witness ==
    /\ last.op = "Get" /\ last.err = "nil" /\ last.built = <<>>
    /\ Has(store, last.name) /\ store[last.name] = last.val

\* C2 (duplicate registration). Register of an identity that has a
\* definition returns AlreadyRegisteredError and changes neither the
\* definitions (the builder stays the original), nor the store, nor any
\* bucket of the type index.
C2_DuplicateRegister ==
    [][ (last'.op = "Register" /\ Has(defs, last'.name)) =>
            /\ last'.err = "AlreadyRegisteredError"
            /\ defs' = defs
            /\ store' = store
            /\ typeToIdentity' = typeToIdentity
      ]_vars

\* A rejected Register, with the definition and an instance in place.
C2_Witness ==
    /\ last.op = "Register" /\ last.err = "AlreadyRegisteredError"
    /\ Has(defs, last.name) /\ Has(store, last.name)

\* C3 (lazy registration). While only Register has been called no builder
\* has run and the store is empty; and a step in which a builder runs is a
\* Get, Create, GetByType, MustGet, Assign or Invoke.
C3_RegisterIsLazy ==
    /\ [](regOnly => (nbuilt = 0 /\ store = EmptyMap))
    /\ [][ nbuilt' # nbuilt =>
              last'.op \in {"Get", "Create", "GetByType", "MustGet",
                            "Assign", "Invoke"} ]_vars

\* Two definitions registered, one Register rejected, nothing else called.
C3_Witness ==
    /\ regOnly
    /\ Cardinality(DOMAIN defs) = 2
    /\ last.op = "Register" /\ last.err = "AlreadyRegisteredError"

\* The registered identities whose builder produces t, in registration order.
RegisteredFor(t) ==
    SelectSeq(regOrder, LAMBDA i : Has(defs, i) /\ defs[i].out[1] = t)

\* C4 (first wins, explicit identity overrides). Resolution by type t, with
\* at least one identity of type t registered, gives what Get of the
\* earliest registered of them gives, an instance made by that identity's
\* builder; Get of an identity, and Invoke with an identity, give an
\* instance made by that identity's builder.
C4_FirstWins ==
    [][ /\ \A t \in Types :
              (last'.op = "GetByType" /\ last'.name = t
                  /\ Len(RegisteredFor(t)) > 0) =>
                  LET A == RegisteredFor(t)[1]
                      r == Get(World, A, MaxDepth)
                  IN  /\ last'.err = r.err
                      /\ last'.val = r.val
                      /\ r.err = "nil" => last'.val.b = defs[A].tag
        /\ \A B \in Identity :
              (last'.op = "Get" /\ last'.name = B /\ last'.err = "nil") =>
                  last'.val.b = defs[B].tag
        /\ \A B \in Identity :
              (last'.op = "Invoke" /\ last'.name = B /\ last'.called) =>
                  last'.args[1].b = defs[B].tag
      ]_vars

\* C5 (unregister, then get). Unregister of an identity that has a
\* definition returns normally and leaves neither the definition nor a
\* cached instance, so that a Get of the identity in the state it leaves
\* returns the "was not registered" error and no value.
C5_UnregisterThenGet ==
    [][ (last'.op = "Unregister" /\ Has(defs, last'.name)) =>
            /\ last'.err = "nil"
            /\ ~Has(defs', last'.name)
            /\ ~Has(store', last'.name)
            /\ Get(World', last'.name, MaxDepth).err = "was not registered"
            /\ Get(World', last'.name, MaxDepth).val = NoVal
      ]_vars

\* An identity unregistered while its instance was cached.
C5_Witness ==
    /\ last.op = "Unregister" /\ last.err = "nil" /\ last.hit
    /\ ~Has(defs, last.name) /\ ~Has(store, last.name)

\* C6 (unregister is idempotent). Unregister of an identity that has no
\* definition returns normally and changes nothing.
C6_UnregisterIdempotent ==
    [][ (last'.op = "Unregister" /\ ~Has(defs, last'.name)) =>
            /\ last'.err = "nil"
            /\ defs' = defs
            /\ store' = store
            /\ typeToIdentity' = typeToIdentity
      ]_vars

\* C7 (flush). In the state FlushALL leaves, the definitions, the store and
\* every bucket of the type index are empty; Register of any identity
\* succeeds there, and after it a Get of the identity, or of the builder's
\* type, that succeeds returns an instance the new builder makes then (a
\* zero-parameter, one-result builder makes Get succeed).
C7_FlushALL ==
    last.op = "FlushALL" =>
        /\ defs = EmptyMap
        /\ store = EmptyMap
        /\ \A t \in Types : typeToIdentity[t] = <<>>
        /\ \A id \in Identity, b \in Builder :
              LET reg == Register(World, id, b)
                  g == Get(reg.w, id, MaxDepth)
                  gt == GetByType(reg.w, b.out[1], MaxDepth)
              IN  /\ reg.err = "nil"
                  /\ (b.in = <<>> /\ Len(b.out) = 1) => g.err = "nil"
                  /\ g.err = "nil" =>
                        /\ g.val.b = b.tag
                        /\ g.val.n > nbuilt
                        /\ g.w.built = <<b.tag>>
                  /\ gt.err = g.err /\ gt.val = g.val

\* A flush of a container that held definitions, a cached instance and a
\* type index.
C7_Witness ==
    /\ last.op = "FlushALL" /\ nbuilt > 0 /\ regOrder = <<>>
    /\ defs = EmptyMap /\ store = EmptyMap

\* C8 (create). Create of a registered identity whose builder the container
\* can resolve (create, called by Get, succeeds on it) invokes that builder
\* once, returns the instance made then, not the cached one, and leaves the
\* store as it was.
C8_Create ==
    [][ (last'.op = "Create" /\ Has(defs, last'.name)
            /\ create(World, last'.name, MaxDepth).err = "nil") =>
            /\ last'.err = "nil"
            /\ Count(last'.built, defs[last'.name].tag) = 1
            /\ last'.val.b = defs[last'.name].tag
            /\ last'.val.n > nbuilt
            /\ store' = store
      ]_vars

\* ------------------------------------------------- properties of Bootstrap
\* The events of one kind among what the last call did, in order.
EventsOf(kind) == SelectSeq(trace, LAMBDA e : e.e = kind)

\* The managers (or builders) a sequence of events or of managers names.
NamesOf(seq) == [i \in 1..Len(seq) |-> seq[i].m]

\* Where in the trace the k-th event of a kind is.
PosOf(kind, k) ==
    CHOOSE i \in 1..Len(trace) :
        /\ trace[i].e = kind
        /\ Cardinality({j \in 1..i : trace[j].e = kind}) = k

\* The builders run before the last call began: an instance numbered above
\* this was built during the call.
BuiltBefore == nbuilt - Len(EventsOf("build"))

ContainerEmpty ==
    /\ defs = EmptyMap
    /\ store = EmptyMap
    /\ \A t \in Types : typeToIdentity[t] = <<>>

\* The last call was an eager Boot that returned, every Start having
\* returned nil.
EagerBootReturned ==
    /\ last.op = "Boot"
    /\ ~last.lazy
    /\ last.err = "nil"
    /\ \A i \in 1..Len(trace) : trace[i].e = "start" => trace[i].err = "nil"

FailedStart(e) ==
    /\ e.e = "start"
    /\ e.err \notin ({"nil", "AlreadyRegisteredError"} \cup Stuck)

\* The managers of this Boot whose Start returned nil, in order.
StartedNow == NamesOf(SelectSeq(EventsOf("start"), LAMBDA e : e.err = "nil"))

DuplicateStart(e) == e.e = "start" /\ e.err = "AlreadyRegisteredError"

C12_RunReleasesOnEveryPath ==
    (last.op = "Run" /\ EventsOf("f") # <<>>) =>
        /\ NamesOf(EventsOf("close")) = NamesOf(last.tracked)
        /\ Len(EventsOf("flush")) = 1
        /\ ContainerEmpty
        /\ successful_procedures = <<>>

\* C13: a Run that finds no manager tracked does nothing: its function is
\* not called, nothing is closed or flushed (the call leaves no event), and
\* the container and the tracked list are as they were.
C13_RunWithNothingTracked ==
    [][(last'.op = "Run" /\ last'.tracked = <<>>) =>
           /\ trace' = <<>>
           /\ last'.err = "nil"
           /\ UNCHANGED <<defs, typeToIdentity, store, mu, nbuilt,
                          successful_procedures>>
      ]_vars

C13_Witness ==
    /\ last.op = "Run"
    /\ last.tracked = <<>>
    /\ defs # EmptyMap
    /\ trace = <<>>

\* The managers tracked when the last call came to its Release.
TrackedAtRelease ==
    IF last.op = "Boot" THEN NamesOf(last.tracked) \o StartedNow
    ELSE NamesOf(last.tracked)

\* C14: in every call that comes to Release (Release itself, Run after its
\* function, Boot on a failed Start), Close is called on every tracked
\* manager in start order, whether or not an earlier Close returned an error;
\* the one flush comes after the last Close and ends the call, leaving the
\* container empty and no manager tracked; a Close whose resource was cached
\* when the call began still finds it.
C14_ReleaseOrdering ==
    [][(EventsOf("flush") # <<>>)' =>
           /\ (NamesOf(EventsOf("close")) = TrackedAtRelease)'
           /\ (Len(EventsOf("flush")) = 1 /\ trace[Len(trace)].e = "flush")'
           /\ ContainerEmpty'
           /\ successful_procedures' = <<>>
           /\ \A i \in 1..Len(last'.tracked) :
                  Has(store, last'.tracked[i].id) =>
                      (EventsOf("close")[i].err = "nil")'
      ]_vars

C14_Witness ==
    /\ last.op = "Release"
    /\ Len(EventsOf("close")) = 2
    /\ EventsOf("close")[1].err # "nil"
    /\ trace[Len(trace)].e = "flush"

\* C15: in every call that comes to Release, each manager tracked (started
\* successfully since the Release before) is closed exactly once; a Release
\* that finds no manager tracked calls no Close.
C15_ExactlyOnceRelease ==
    /\ EventsOf("flush") # <<>> =>
           \A i \in 1..Len(TrackedAtRelease) :
               Count(NamesOf(EventsOf("close")), TrackedAtRelease[i]) = 1
    /\ (last.op = "Release" /\ last.tracked = <<>>) => EventsOf("close") = <<>>

\* ---------------------------------------- properties of Invoke and MustGet
\* C16: Invoke of a function resolves one argument per parameter; when they
\* all resolve it calls the function, once, with them, and returns the
\* function's last result when that is a non-nil error and nil otherwise;
\* when one does not resolve it returns the error of the resolution and does
\* not call the function. (Resolutions that never return, on a cycle of
\* builders, are left aside.)
C16_Invoke ==
    [][(last'.op = "Invoke" /\ checkCallee(last'.function) = "nil") =>
           LET p == buildParams(World, last'.function, last'.ids, MaxDepth)
           IN  \/ p.err \in Stuck
               \/ /\ p.err = "nil"
                  /\ Len(p.args) = Len(last'.function.in)
                  /\ last'.called
                  /\ last'.args = p.args
                  /\ last'.err = IF last'.function.fails THEN "callee error"
                                 ELSE "nil"
               \/ /\ p.err \notin {"nil", "panic"}
                  /\ ~last'.called
                  /\ last'.err = p.err
      ]_vars

\* C17: of the container's operations only MustGet panics, and it panics
\* exactly when Get of the identity returns an error, returning Get's value
\* otherwise; every other operation reports its failures as returned errors.
C17_OnlyMustGetPanics ==
    [][/\ last'.err = "panic" => last'.op = "MustGet"
       /\ last'.op = "MustGet" =>
              LET g == Get(World, last'.name, MaxDepth)
              IN  \/ g.err \in Stuck
                  \/ g.err = "nil" /\ last'.err = "nil" /\ last'.val = g.val
                  \/ g.err # "nil" /\ last'.err = "panic"
      ]_vars

\* ------------------------------------------ properties of concurrent callers
\* C18: every write to the definitions, the store or the type index is made
\* by a caller holding the exclusive lock, and every read of them by a caller
\* holding the shared lock at least.
C18_LockDiscipline ==
    /\ access.kind = "write" => access.held = "exclusive"
    /\ access.kind = "read" => access.held \in {"shared", "exclusive"}

\* The Gets of an identity that was registered when they began, that ran
\* beside lookups only (no Register, Unregister or FlushALL under way), and
\* that have returned.
ReturnedGets(id) ==
    {p \in Proc : /\ pc[p] = "idle"
                  /\ frame[p].op = "Get"
                  /\ frame[p].name = id
                  /\ frame[p].registered
                  /\ frame[p].alone}

\* The instances the callers' builders have produced for an identity.
MadeFor(id) == {m.obj : m \in {x \in made : x.id = id}}

\* A caller in the middle of a call can take a step, or another can.
Progress ==
    (\E p \in Proc : pc[p] \notin {"idle", "crashed"}) => ENABLED
        (\E p \in Proc :
            \/ RegisterRLock(p) \/ RegisterExists(p) \/ RegisterLock(p)
            \/ RegisterWrite(p) \/ GetRLock(p) \/ GetExists(p) \/ GetCreate(p)
            \/ GetInvoker(p) \/ GetLock(p) \/ GetStore(p))

C20_BuiltOnce ==
    \A id \in Identity :
        /\ Cardinality({p \in ReturnedGets(id) : frame[p].missed}) <= 1
        /\ \A p \in ReturnedGets(id) :
               Has(store, id) /\ frame[p].val = store[id]

\* ----------------------------------------- properties of the container's maps
\* C21: in every state, whatever the callers' calls and however they
\* interleave, every identity that has an entry in the store has an entry in
\* the definitions.
C21_StoreImpliesDefinition == DOMAIN store \subseteq DOMAIN defs

\* C22: each bucket of the type index holds exactly the registered identities
\* whose builder produces the type, each once, in registration order; hence
\* resolution by type goes to the earliest registered identity of the type
\* that is still registered (it gives what Get of that identity gives), and
\* reports that no instance is registered with the type when none is.
C22_TypeIndexExact ==
    \A t \in Types :
        /\ typeToIdentity[t] = RegisteredFor(t)
        /\ ~halted =>
               IF Len(RegisteredFor(t)) = 0
               THEN GetByType(World, t, MaxDepth).err
                        = "there is no instance registered with type"
               ELSE /\ GetByType(World, t, MaxDepth).err
                           = Get(World, RegisteredFor(t)[1], MaxDepth).err
                    /\ GetByType(World, t, MaxDepth).val
                           = Get(World, RegisteredFor(t)[1], MaxDepth).val

\* ------------------------------------------- properties of Boot's eager Get
\* The last call was an eager Boot that panicked although no Start had
\* failed: the Get of a started manager's resource returned an error.
EagerGetFailed ==
    /\ last.op = "Boot"
    /\ ~last.lazy
    /\ last.err = "panic"
    /\ \A i \in 1..Len(trace) : ~FailedStart(trace[i])

\* The managers of this Boot started before the one whose Get failed.
StartedEarlier == SubSeq(StartedNow, 1, Len(StartedNow) - 1)

\* C23: when an eager Boot aborts because the Get of a started manager's
\* resource fails, Close has been called on every manager tracked (those
\* started earlier in the Boot among them), in start order, the container has
\* been flushed, and the manager whose Get failed is not tracked: no manager
\* is.
C23_RollbackOnFailedGet ==
    EagerGetFailed =>
        /\ NamesOf(EventsOf("close")) = NamesOf(last.tracked) \o StartedEarlier
        /\ Len(EventsOf("flush")) = 1
        /\ ContainerEmpty
        /\ successful_procedures = <<>>

\* -------------------------------------------------- properties of resolution
RECURSIVE Resolution(_, _, _)
RECURSIVE ParamsResolution(_, _, _, _)
\* The identities a Get of id builds, in the order their builders are to run,
\* after those of seen: the identities its builder's parameters resolve to
\* (by type, the first identity of the bucket), each with what it needs in
\* turn, and then id itself; an identity already built is not built again.
\* What cannot be resolved (no definition, an empty bucket) stands as "?".
Resolution(id, seen, fuel) ==
    IF fuel = 0 \/ (\E i \in 1..Len(seen) : seen[i] = id) THEN seen
    ELSE IF ~Has(defs, id) THEN Append(seen, "?")
    ELSE Append(ParamsResolution(id, 1, seen, fuel - 1), id)

ParamsResolution(id, i, seen, fuel) ==
    IF i > Len(defs[id].in) THEN seen
    ELSE IF typeToIdentity[defs[id].in[i]] = <<>> THEN Append(seen, "?")
    ELSE ParamsResolution(id, i + 1,
                          Resolution(typeToIdentity[defs[id].in[i]][1], seen, fuel),
                          fuel)

C25_CreateTerminates ==
    [][ (/\ last'.op = "Create"
         /\ Has(defs, last'.name)
         /\ Len(defs[last'.name].in) >= 1
         /\ create(World, last'.name, MaxDepth).err = "nil") =>
            /\ ~halted'
            /\ last'.err \notin Stuck
            /\ last'.val.n > nbuilt
      ]_vars

\* The identities cached during the step.
NewlyCached == DOMAIN store' \ DOMAIN store

\* C26: a Get(id) that returns an error leaves the definitions and the type
\* index as they were and the store without an entry for id; the entries the
\* store had are kept, and each builder that ran during the call has left its
\* instance in the store, under an identity other than id: id's builder has
\* not run, and nothing else has changed than the store entries of the
\* dependencies resolved before the failing one.
C26_FailedGet ==
    [][ (last'.op = "Get" /\ last'.err \notin ({"nil"} \cup Stuck)) =>
            /\ defs' = defs
            /\ typeToIdentity' = typeToIdentity
            /\ mu' = mu
            /\ ~Has(store', last'.name)
            /\ \A x \in DOMAIN store : Has(store', x) /\ store'[x] = store[x]
            /\ nbuilt' - nbuilt = Cardinality(NewlyCached)
            /\ Len(last'.built) = Cardinality(NewlyCached)
            /\ \A x \in NewlyCached :
                   /\ x # last'.name
                   /\ Has(defs, x)
                   /\ store'[x].b = defs[x].tag
                   /\ store'[x].n > nbuilt
      ]_vars

\* A Get that failed on its builder's second parameter, the first one's
\* instance having been built and cached.
C26_Witness ==
    /\ last.op = "Get"
    /\ last.err = "there is no instance registered with type"
    /\ Len(last.built) = 1
    /\ ~Has(store, last.name)
    /\ store # EmptyMap

\* ------------------------------------------ properties of racing Registers
\* The Registers of an identity that had no definition when they began and
\* that have returned nil.
RegisteredAnew(id) ==
    {p \in Proc : /\ pc[p] = "idle"
                  /\ frame[p].op = "Register"
                  /\ frame[p].name = id
                  /\ ~frame[p].registered
                  /\ frame[p].err = "nil"}

\* C27: of the Registers of one absent identity that run beside each other
\* one only returns nil (the others return AlreadyRegisteredError), the
\* definition is the builder of that one, and the identity is in the type
\* index once, in the bucket of that builder's type.
C27_RegisterAtomic ==
    \A id \in Identity :
        /\ Cardinality(RegisteredAnew(id)) <= 1
        /\ \A p \in RegisteredAnew(id) :
               Has(defs, id) /\ defs[id] = frame[p].build
        /\ \A t \in Types :
               Count(typeToIdentity[t], id)
                   = IF Has(defs, id) /\ defs[id].out[1] = t THEN 1 ELSE 0

====
